---------------------------- MODULE Spec2Model ----------------------------
(***************************************************************************)
(* A model of the string utilities of @quale/core (src/src/strings.ts) and *)
(* of the code point classifiers they use (codes.ts).                      *)
(*                                                                         *)
(* A string is the sequence of its UTF-16 code units (integers).  A        *)
(* JavaScript value is a record [t, s, a]: t is its type, s the code units *)
(* of a string (or the one number of a number), a the elements of an       *)
(* array.  Source indices are 0-based; the sequences here are 1-based, so  *)
(* str[index] of the source is str[index + 1] here.                        *)
(***************************************************************************)
EXTENDS Integers, Sequences, FiniteSets, TLC

(***************************************************************************)
(* Bounds of the model.                                                    *)
(***************************************************************************)
\* the longest input string, in tokens of the Alphabet
MaxTokens == 3
\* the largest valid maxWidth tried
MaxWidth == 3
\* the largest tolerance tried
MaxTolerance == 1

(***************************************************************************)
(* Code point classifiers (codes.ts).  Number.isInteger(cp) holds of every *)
(* code point these are applied to here: cp is an integer.                 *)
(***************************************************************************)
isBreakingSpace(cp) ==
    \/ cp = 32
    \/ cp = 5760
    \/ (8192 <= cp /\ cp <= 8202)
    \/ cp = 8287
    \/ cp = 12288

isCombining(cp) == cp >= 768 /\ cp <= 879

isControl(cp) == cp <= 31 \/ (cp >= 127 /\ cp <= 159)

isNonBreakingSpace(cp) == cp = 160 \/ cp = 8239

isSpace(cp) == isNonBreakingSpace(cp) \/ isBreakingSpace(cp)

\* isSurrogate never true: a pair is scanned as two characters
isSurrogateNever(cp) == FALSE

isSurrogate(cp) == cp > 65535

isFullwidth(cp) ==
    /\ cp >= 4352
    /\ \/ cp <= 4447
       \/ cp = 9001
       \/ cp = 9002
       \/ (11904 <= cp /\ cp <= 12871 /\ cp # 12351)
       \/ (12880 <= cp /\ cp <= 19903)
       \/ (19968 <= cp /\ cp <= 42182)
       \/ (43360 <= cp /\ cp <= 43388)
       \/ (44032 <= cp /\ cp <= 55203)
       \/ (63744 <= cp /\ cp <= 64255)
       \/ (65040 <= cp /\ cp <= 65049)
       \/ (65072 <= cp /\ cp <= 65131)
       \/ (65281 <= cp /\ cp <= 65376)
       \/ (65504 <= cp /\ cp <= 65510)
       \/ (110592 <= cp /\ cp <= 110593)
       \/ (127488 <= cp /\ cp <= 127569)
       \/ (131072 <= cp /\ cp <= 262141)

isBreakingDash(cp) ==
    \/ cp = 45
    \/ cp = 1418
    \/ cp = 1470
    \/ cp = 5120
    \/ cp = 6150
    \/ /\ 8208 <= cp /\ cp <= 12448
       /\ \/ cp = 8208
          \/ (8210 <= cp /\ cp <= 8213)
          \/ cp = 11799
          \/ cp = 11802
          \/ cp = 11834
          \/ cp = 11835
          \/ cp = 11840
          \/ cp = 12316
          \/ cp = 12336
          \/ cp = 12448
    \/ /\ 65073 <= cp /\ cp <= 65293
       /\ \/ cp = 65073
          \/ cp = 65074
          \/ cp = 65112
          \/ cp = 65123
          \/ cp = 65293
    \/ cp = 69293

isWordBreaking(cp) == isBreakingSpace(cp) \/ isBreakingDash(cp)

(***************************************************************************)
(* String.prototype.codePointAt: the code point that starts at 0-based     *)
(* index i of s; a high surrogate followed by a low one is one code point  *)
(* above 0xFFFF, any other unit is its own code point.                     *)
(***************************************************************************)
codePointAt(s, i) ==
    LET hi == s[i + 1]
    IN  IF /\ 55296 <= hi /\ hi <= 56319
           /\ i + 2 <= Len(s)
           /\ 56320 <= s[i + 2] /\ s[i + 2] <= 57343
        THEN 65536 + (hi - 55296) * 1024 + (s[i + 2] - 56320)
        ELSE hi

(***************************************************************************)
(* Sequence helpers: Array.prototype.join('') and String indexes.          *)
(***************************************************************************)
RECURSIVE cat(_)
cat(parts) == IF parts = <<>> THEN <<>> ELSE Head(parts) \o cat(Tail(parts))

\* whether p occurs in s at 1-based position i
OccursAt(s, p, i) ==
    /\ i >= 1
    /\ i + Len(p) - 1 <= Len(s)
    /\ SubSeq(s, i, i + Len(p) - 1) = p

IsPrefix(p, s) == OccursAt(s, p, 1)

IsSuffix(p, s) == OccursAt(s, p, Len(s) - Len(p) + 1)

\* the background-close sequence ESC [ 4 9 m
BG_CLOSE == <<27, 91, 52, 57, 109>>

(***************************************************************************)
(* regexes.js.  An escape sequence is the CSI form ESC [ params letter:    *)
(* params are digits and semicolons, the final unit is an ASCII letter.    *)
(***************************************************************************)
IsParam(u) == (48 <= u /\ u <= 57) \/ u = 59

IsFinal(u) == (65 <= u /\ u <= 90) \/ (97 <= u /\ u <= 122)

RECURSIVE ParamsEnd(_, _)
\* the first 1-based position k >= i of s that holds no parameter unit
ParamsEnd(s, i) ==
    IF i <= Len(s) /\ IsParam(s[i]) THEN ParamsEnd(s, i + 1) ELSE i

\* the length of the escape sequence that starts at 1-based position i of s,
\* 0 when none does (regexes.ansi)
AnsiLenAt(s, i) ==
    IF i >= 1 /\ i + 1 <= Len(s) /\ s[i] = 27 /\ s[i + 1] = 91
    THEN LET k == ParamsEnd(s, i + 2)
         IN  IF k <= Len(s) /\ IsFinal(s[k]) THEN k - i + 1 ELSE 0
    ELSE 0

RECURSIVE ConsecLenAt(_, _)
\* the length of the run of consecutive escape sequences that starts at i
ConsecLenAt(s, i) ==
    LET n == AnsiLenAt(s, i)
    IN  IF n = 0 THEN 0 ELSE n + ConsecLenAt(s, i + n)

RECURSIVE AnsiConsec(_, _)
\* str.substring(from).match(regexes.ansi.consec): the leftmost run at or
\* after 0-based index from, as [index, len]; index -1 is "no match"
AnsiConsec(s, from) ==
    IF from >= Len(s) THEN [index |-> -1, len |-> 0]
    ELSE IF AnsiLenAt(s, from + 1) > 0
         THEN [index |-> from, len |-> ConsecLenAt(s, from + 1)]
         ELSE AnsiConsec(s, from + 1)

\* a background sequence: ESC [ 4 d m, d a digit (49 is the close)
IsBg(q) ==
    /\ Len(q) = 5
    /\ q[1] = 27 /\ q[2] = 91 /\ q[3] = 52
    /\ 48 <= q[4] /\ q[4] <= 57
    /\ q[5] = 109

RECURSIVE AnsiBgGlobal(_, _)
\* ansi.match(regexes.ansi.bgGlobal): the background sequences of s from
\* 1-based position i on, in order (<<>> is "no match")
AnsiBgGlobal(s, i) ==
    IF i > Len(s) THEN <<>>
    ELSE IF i + 4 <= Len(s) /\ IsBg(SubSeq(s, i, i + 4))
         THEN <<SubSeq(s, i, i + 4)>> \o AnsiBgGlobal(s, i + 5)
         ELSE AnsiBgGlobal(s, i + 1)

RECURSIVE AnsiGlobalStrip(_, _)
\* str.replace(regexes.ansi.global, ''), from 1-based position i on: one
\* pass, left to right, over the matches of the input
AnsiGlobalStrip(s, i) ==
    IF i > Len(s) THEN <<>>
    ELSE LET n == AnsiLenAt(s, i)
         IN  IF n > 0 THEN AnsiGlobalStrip(s, i + n)
             ELSE <<s[i]>> \o AnsiGlobalStrip(s, i + 1)

RECURSIVE LineBreakGlobal(_, _)
\* str.replace(regexes.lineBreak.global, '\n'), from 1-based position i on:
\* CR LF, CR and LF each become one LF
LineBreakGlobal(s, i) ==
    IF i > Len(s) THEN <<>>
    ELSE IF s[i] = 13 /\ i + 1 <= Len(s) /\ s[i + 1] = 10
         THEN <<10>> \o LineBreakGlobal(s, i + 2)
         ELSE IF s[i] = 13
              THEN <<10>> \o LineBreakGlobal(s, i + 1)
              ELSE <<s[i]>> \o LineBreakGlobal(s, i + 1)

(***************************************************************************)
(* JavaScript values.                                                      *)
(***************************************************************************)
Str(s) == [t |-> "string", s |-> s, a |-> <<>>]

Num(n) == [t |-> "number", s |-> <<n>>, a |-> <<>>]

Undefined == [t |-> "undefined", s |-> <<>>, a |-> <<>>]

Null == [t |-> "null", s |-> <<>>, a |-> <<>>]

Arr(elems) == [t |-> "array", s |-> <<>>, a |-> elems]

\* the exception a call of a method the value does not have raises
TypeError == [t |-> "TypeError", s |-> <<>>, a |-> <<>>]

\* !v
Falsy(v) ==
    \/ v.t \in {"undefined", "null"}
    \/ (v.t = "string" /\ v.s = <<>>)
    \/ (v.t = "number" /\ v.s = <<0>>)

\* a number given as maxWidth: an integer n, n + 1/2, Infinity or NaN
Whole(n) == [t |-> "int", n |-> n]

Half(n) == [t |-> "fraction", n |-> n]

Infinity == [t |-> "Infinity", n |-> 0]

NaN == [t |-> "NaN", n |-> 0]

IsInteger(x) == x.t = "int"

\* the options object: t is "undefined", "null" or "object"; keys are the
\* properties an object has
NoOpts == [t |-> "undefined", keys |-> {}, tolerance |-> 0, trimBreak |-> FALSE]

NullOpts == [t |-> "null", keys |-> {}, tolerance |-> 0, trimBreak |-> FALSE]

Opts(keys, tolerance, trimBreak) ==
    [t |-> "object", keys |-> keys, tolerance |-> tolerance,
     trimBreak |-> trimBreak]

(***************************************************************************)
(* breakLine (strings.ts 50-165).  Its locals are the record b: str (after *)
(* the normalization), maxWidth, tolerance, trimBreak, lines, bgUnclosed,  *)
(* line, lineWidth, index, ansiIndex and the length of ansiMatch[0].       *)
(***************************************************************************)
\* the guard with maxWidth < 1 for maxWidth < 2
GuardBelowOne(str, maxWidth) ==
    Falsy(str) \/ ~IsInteger(maxWidth) \/ maxWidth.n < 1

\* the guard without its test of str
GuardOfWidth(str, maxWidth) == ~IsInteger(maxWidth) \/ maxWidth.n < 2

\* the guard of line 51
Guard(str, maxWidth) ==
    Falsy(str) \/ ~IsInteger(maxWidth) \/ maxWidth.n < 2

\* push with line 66 resetting the line to the empty string
pushNoReopen(b) ==
    [b EXCEPT !.lines = Append(@, b.line \o
                            (IF Len(b.bgUnclosed) # 0 THEN BG_CLOSE ELSE <<>>)),
              !.line = <<>>,
              !.lineWidth = 0]

\* the routine push of lines 63-68
push(b) ==
    [b EXCEPT !.lines = Append(@, b.line \o
                            (IF Len(b.bgUnclosed) # 0 THEN BG_CLOSE ELSE <<>>)),
              !.line = cat(b.bgUnclosed),
              !.lineWidth = 0]

\* the routine searchAnsi of lines 70-73
searchAnsi(b) ==
    LET m == AnsiConsec(b.str, b.index)
    IN  [b EXCEPT !.ansiIndex = m.index, !.ansiLen = m.len]

\* lines 55-60 and 76: the locals as the loop finds them
Start(s, maxWidth, opts) ==
    LET given == opts.t = "object"
    IN  searchAnsi(
          [str |-> LineBreakGlobal(s, 1),
           maxWidth |-> maxWidth,
           tolerance |-> IF given /\ "tolerance" \in opts.keys
                         THEN opts.tolerance ELSE 0,
           trimBreak |-> IF given /\ "trimBreak" \in opts.keys
                         THEN opts.trimBreak ELSE FALSE,
           lines |-> <<>>, bgUnclosed |-> <<>>,
           line |-> <<>>, lineWidth |-> 0, index |-> 0,
           ansiIndex |-> -1, ansiLen |-> 0])

\* lines 86-99: the unclosed background sequences after a run whose
\* background sequences are bgs
trackBg(bgUnclosed, bgs) ==
    IF bgs = <<>> THEN bgUnclosed
    ELSE LET closes == {k \in 1..Len(bgs) : bgs[k] = BG_CLOSE}
             i == IF closes = {} THEN 0
                  ELSE CHOOSE k \in closes : \A j \in closes : j <= k
         IN  IF i = Len(bgs) THEN <<>>
             ELSE bgUnclosed \o SubSeq(bgs, i + 1, Len(bgs))

\* lines 124-140: the width of the segment of code point code
segmentWidth(code) ==
    IF isSurrogate(code) THEN 2
    ELSE IF isCombining(code) \/ isControl(code) THEN 0
    ELSE IF isFullwidth(code) THEN 2
    ELSE 1

\* line 145 with the option forgotten: every overflowing space is dropped
trimmedAlways(code, trimBreak) == isBreakingSpace(code)

\* line 145: whether the segment is emptied
trimmed(code, trimBreak) == trimBreak /\ isBreakingSpace(code)

\* line 149 with the test for a breaking space forgotten
breaksByWidthOnly(code, thisWidth, maxWidth, tolerance) ==
    thisWidth > maxWidth + tolerance

\* line 149 with the width test forgotten: only a breaking space breaks
breaksAtSpaceOnly(code, thisWidth, maxWidth, tolerance) ==
    isBreakingSpace(code)

\* line 149 with the width test off by one
breaksLate(code, thisWidth, maxWidth, tolerance) ==
    isBreakingSpace(code) \/ thisWidth > maxWidth + tolerance + 1

\* line 149: whether an overflowing segment flushes the line first
breaks(code, thisWidth, maxWidth, tolerance) ==
    isBreakingSpace(code) \/ thisWidth > maxWidth + tolerance

\* lines 156-158 without the test index < str.length - 1
dashBreaksAtEnd(code, lineWidth, maxWidth, index, length) ==
    lineWidth >= maxWidth /\ isBreakingDash(code)

\* line 156-158: whether the line is flushed after the segment
dashBreaks(code, lineWidth, maxWidth, index, length) ==
    lineWidth >= maxWidth /\ index < length - 1 /\ isBreakingDash(code)

\* line 112 never true: LF is a character as any other
lineBreaksNever(code) == FALSE

\* line 112: whether the code point is the line break
lineBreaks(code) == code = 10

\* lines 108-161 and the ++index of line 77
scanChar(b) ==
    IF b.index >= Len(b.str) THEN [b EXCEPT !.index = @ + 1]
    ELSE
    LET code == codePointAt(b.str, b.index)
    IN  IF lineBreaks(code) THEN [push(b) EXCEPT !.index = @ + 1]
        ELSE
        LET pair == isSurrogate(code)
            index1 == IF pair THEN b.index + 1 ELSE b.index
            thisWidth == b.lineWidth + segmentWidth(code)
            over == thisWidth > b.maxWidth
            drop == over /\ trimmed(code, b.trimBreak)
            segment == IF drop THEN <<>>
                       ELSE SubSeq(b.str, b.index + 1, index1 + 1)
            segWidth == IF drop THEN 0 ELSE segmentWidth(code)
            b1 == IF over /\ breaks(code, thisWidth, b.maxWidth, b.tolerance)
                  THEN push(b) ELSE b
            b2 == [b1 EXCEPT !.lineWidth = @ + segWidth,
                             !.line = @ \o segment,
                             !.index = index1]
            b3 == IF dashBreaks(code, b2.lineWidth, b.maxWidth, index1,
                                Len(b.str))
                  THEN push(b2) ELSE b2
        IN  [b3 EXCEPT !.index = @ + 1]

\* an iteration without lines 78-107: every code unit is a character
iterateUnaware(b) == scanChar(b)

\* an iteration without line 102: the list of unclosed background
\* sequences is kept when the run ends the string
iterateKeepsOpen(b) ==
    IF b.ansiIndex # b.index THEN scanChar(b)
    ELSE
    LET ansi == SubSeq(b.str, b.index + 1, b.index + b.ansiLen)
        b1 == [b EXCEPT !.line = @ \o ansi,
                        !.index = @ + Len(ansi),
                        !.bgUnclosed = trackBg(@, AnsiBgGlobal(ansi, 1))]
    IN  IF b1.index = Len(b.str) THEN b1 ELSE scanChar(searchAnsi(b1))

\* one iteration of the loop of lines 77-162: the ANSI run at index, if
\* any (78-107), then the character after it
iterate(b) ==
    IF b.ansiIndex # b.index THEN scanChar(b)
    ELSE
    LET ansi == SubSeq(b.str, b.index + 1, b.index + b.ansiLen)
        b1 == [b EXCEPT !.line = @ \o ansi,
                        !.index = @ + Len(ansi),
                        !.bgUnclosed = trackBg(@, AnsiBgGlobal(ansi, 1))]
    IN  IF b1.index = Len(b.str)
        THEN [b1 EXCEPT !.bgUnclosed = <<>>]
        ELSE scanChar(searchAnsi(b1))

RECURSIVE loop(_)
\* the loop of lines 77-162 and the push of line 163
loop(b) == IF b.index < Len(b.str) THEN loop(iterate(b)) ELSE push(b)

\* the strings of a list of lines, as an array
Strings(lines) == Arr([k \in 1..Len(lines) |-> Str(lines[k])])

\* breakLine(str, maxWidth, opts), as a function of its arguments
breakLine(str, maxWidth, opts) ==
    IF Guard(str, maxWidth) THEN Arr(<<str>>)
    ELSE IF str.t # "string" THEN TypeError
    ELSE Strings(loop(Start(str.s, maxWidth.n, opts)).lines)

(***************************************************************************)
(* breakLines, forceLineReturn, stripAnsi and stringWidth.                 *)
(***************************************************************************)
RECURSIVE flatMap(_, _)
\* lines.map(line => breakLine(line, width)).flat(): TypeError when a call
\* raises
flatMap(elems, width) ==
    IF elems = <<>> THEN Arr(<<>>)
    ELSE LET first == breakLine(Head(elems), width, NoOpts)
             rest == flatMap(Tail(elems), width)
         IN  IF first = TypeError \/ rest = TypeError THEN TypeError
             ELSE Arr(first.a \o rest.a)

\* breakLines(lines, width) (strings.ts 171-173)
breakLines(lines, width) ==
    IF lines.t # "array" THEN TypeError ELSE flatMap(lines.a, width)

RECURSIVE split(_, _)
\* content.split('\n'): the pieces of s between its LF units, the piece in
\* progress being cur
split(s, cur) ==
    IF s = <<>> THEN <<Str(cur)>>
    ELSE IF Head(s) = 10 THEN <<Str(cur)>> \o split(Tail(s), <<>>)
         ELSE split(Tail(s), Append(cur, Head(s)))

RECURSIVE join(_)
\* elems.join('\n') of an array of strings (undefined and null join as '')
join(elems) ==
    IF elems = <<>> THEN <<>>
    ELSE IF Len(elems) = 1 THEN Head(elems).s
         ELSE Head(elems).s \o <<10>> \o join(Tail(elems))

\* forceLineReturn(content, width) (strings.ts 179-181)
forceLineReturn(content, width) ==
    IF content.t # "string" THEN TypeError
    ELSE LET broken == breakLines(Arr(split(content.s, <<>>)), width)
         IN  IF broken = TypeError THEN TypeError ELSE Str(join(broken.a))

\* stripAnsi(str) (strings.ts 227-229), on the code units
stripAnsi(s) == AnsiGlobalStrip(s, 1)

\* lines 276-282 without the width += 1 of line 280
pointWidthFlat(codePoint) == IF isFullwidth(codePoint) THEN 2 ELSE 1

\* lines 276-282: what a code point that is neither control nor combining
\* adds to the width
pointWidth(codePoint) ==
    (IF isSurrogate(codePoint) THEN 1 ELSE 0)
        + (IF isFullwidth(codePoint) THEN 2 ELSE 1)

RECURSIVE widthFrom(_, _)
\* the loop of lines 262-283, from 0-based index on
widthFrom(s, index) ==
    IF index >= Len(s) THEN 0
    ELSE LET codePoint == codePointAt(s, index)
         IN  IF isControl(codePoint) THEN widthFrom(s, index + 1)
             ELSE IF isCombining(codePoint) THEN widthFrom(s, index + 1)
             ELSE pointWidth(codePoint)
                   + widthFrom(s, IF isSurrogate(codePoint)
                                  THEN index + 2 ELSE index + 1)

\* stringWidth without line 256: the escape sequences are measured too
stringWidthUnstripped(str) ==
    IF str.t # "string" \/ Len(str.s) = 0 THEN 0 ELSE widthFrom(str.s, 0)

\* stringWidth(str) (strings.ts 252-285)
stringWidth(str) ==
    IF str.t # "string" \/ Len(str.s) = 0 THEN 0
    ELSE LET stripped == stripAnsi(str.s)
         IN  IF Len(stripped) = 0 THEN 0 ELSE widthFrom(stripped, 0)

(***************************************************************************)
(* The inputs.                                                             *)
(***************************************************************************)
\* a, space, hyphen-minus, LF, ESC[41m, ESC[49m, the fullwidth U+4E2D, the
\* surrogate pair of U+1F600, the combining U+0301, the fullwidth
\* hyphen-minus U+FF0D and the ideographic space U+3000
Alphabet ==
    { <<97>>, <<32>>, <<45>>, <<10>>,
      <<27, 91, 52, 49, 109>>, BG_CLOSE,
      <<20013>>, <<55357, 56832>>, <<769>>, <<65293>>, <<12288>> }

RECURSIVE StringsOf(_, _)
\* the strings of at most n tokens of alphabet
StringsOf(alphabet, n) ==
    IF n = 0 THEN {<<>>}
    ELSE LET shorter == StringsOf(alphabet, n - 1)
         IN  shorter \cup {s \o tok : s \in shorter, tok \in alphabet}

OptionSet ==
    {NoOpts, Opts({"trimBreak"}, 0, TRUE),
     Opts({"tolerance", "trimBreak"}, MaxTolerance, TRUE)}
        \cup {Opts({"tolerance"}, tol, FALSE) : tol \in 1..MaxTolerance}

(***************************************************************************)
(* The state: the function called and its arguments, the place of the      *)
(* call, the locals of breakLine, the value returned (or the exception),   *)
(* and the value of breakLines(result, maxWidth).                          *)
(***************************************************************************)
VARIABLES fn, arg, maxWidth, opts, pc, locals, result, again

vars == <<fn, arg, maxWidth, opts, pc, locals, result, again>>

NoLocals == Start(<<>>, 0, NoOpts)

InitWith(fns, args, widths, options) ==
    /\ fn \in fns
    /\ arg \in args
    /\ maxWidth \in widths
    /\ opts \in options
    /\ pc = "call"
    /\ locals = NoLocals
    /\ result = Undefined
    /\ again = Undefined

\* breakLine is entered: lines 50-60 and 76
Enter ==
    /\ pc = "call"
    /\ fn = "breakLine"
    /\ IF Guard(arg, maxWidth)
       THEN /\ pc' = "done"
            /\ result' = Arr(<<arg>>)
            /\ UNCHANGED locals
       ELSE IF arg.t # "string"
            THEN /\ pc' = "threw"
                 /\ result' = TypeError
                 /\ UNCHANGED locals
            ELSE /\ pc' = "loop"
                 /\ locals' = Start(arg.s, maxWidth.n, opts)
                 /\ UNCHANGED result
    /\ UNCHANGED <<fn, arg, maxWidth, opts, again>>

\* one iteration of the loop of lines 77-162
Iterate ==
    /\ pc = "loop"
    /\ locals.index < Len(locals.str)
    /\ locals' = iterate(locals)
    /\ UNCHANGED <<fn, arg, maxWidth, opts, pc, result, again>>

\* the loop is left: lines 163-164
Finish ==
    /\ pc = "loop"
    /\ locals.index >= Len(locals.str)
    /\ locals' = push(locals)
    /\ result' = Strings(locals'.lines)
    /\ pc' = "done"
    /\ UNCHANGED <<fn, arg, maxWidth, opts, again>>

\* the lines returned are wrapped again: breakLines(result, maxWidth)
Rewrap ==
    /\ pc = "done"
    /\ fn = "breakLine"
    /\ again' = breakLines(result, maxWidth)
    /\ pc' = "rewrapped"
    /\ UNCHANGED <<fn, arg, maxWidth, opts, locals, result>>

\* the strings of the documented examples: "hello world", "abcdef" and
\* ESC[41m "red" ESC[49m " text"
HelloWorld == <<104, 101, 108, 108, 111, 32, 119, 111, 114, 108, 100>>

Abcdef == <<97, 98, 99, 100, 101, 102>>

RedText ==
    <<27, 91, 52, 49, 109, 114, 101, 100, 27, 91, 52, 57, 109,
      32, 116, 101, 120, 116>>

\* ESC[41m "a" ESC[49m ESC[42m "bcd": a background closed and another
\* opened in one run
Recolor ==
    <<27, 91, 52, 49, 109, 97, 27, 91, 52, 57, 109, 27, 91, 52, 50, 109,
      98, 99, 100>>

\* "a" CR LF "b" CR "c": the line breaks that are normalized
Crlf == <<97, 13, 10, 98, 13, 99>>

\* "a" and the surrogate pair of the fullwidth U+20000
Han == <<97, 55360, 56320>>

Examples ==
    {Str(HelloWorld), Str(Abcdef), Str(RedText), Str(Recolor), Str(Crlf),
     Str(Han)}

\* breakLines is called
CallBreakLines ==
    /\ pc = "call"
    /\ fn = "breakLines"
    /\ result' = breakLines(arg, maxWidth)
    /\ pc' = IF result' = TypeError THEN "threw" ELSE "done"
    /\ UNCHANGED <<fn, arg, maxWidth, opts, locals, again>>

\* forceLineReturn is called
CallForceLineReturn ==
    /\ pc = "call"
    /\ fn = "forceLineReturn"
    /\ result' = forceLineReturn(arg, maxWidth)
    /\ pc' = IF result' = TypeError THEN "threw" ELSE "done"
    /\ UNCHANGED <<fn, arg, maxWidth, opts, locals, again>>

\* stringWidth is called
CallStringWidth ==
    /\ pc = "call"
    /\ fn = "stringWidth"
    /\ result' = Num(stringWidth(arg))
    /\ pc' = "done"
    /\ UNCHANGED <<fn, arg, maxWidth, opts, locals, again>>

\* the width of the string without its escape sequences is taken:
\* stringWidth(stripAnsi(str))
Restrip ==
    /\ pc = "done"
    /\ fn = "stringWidth"
    /\ arg.t = "string"
    /\ again' = Num(stringWidth(Str(stripAnsi(arg.s))))
    /\ pc' = "compared"
    /\ UNCHANGED <<fn, arg, maxWidth, opts, locals, result>>

Init ==
    \/ InitWith({"breakLine"},
                {Str(s) : s \in StringsOf(Alphabet, MaxTokens)},
                {Whole(w) : w \in 2..MaxWidth}, OptionSet)
    \/ InitWith({"breakLine"}, Examples, {Whole(3), Whole(5)}, OptionSet)

Next == Enter \/ Iterate \/ Finish \/ Rewrap

Spec == Init /\ [][Next]_vars

(***************************************************************************)
(* What the properties speak of.                                           *)
(***************************************************************************)
\* breakLine has returned from its loop
Returned == fn = "breakLine" /\ pc \in {"done", "rewrapped"}

\* the call is of the example str at width w with the options o
Called(s, w, o) == arg = Str(s) /\ maxWidth = Whole(w) /\ opts = o

\* the run of breakLine agrees with breakLine as a function
LoopAgrees == Returned => result = breakLine(arg, maxWidth, opts)

RECURSIVE measureFrom(_, _)
\* the accumulated width of the text of s from 0-based index i on: the
\* segment widths breakLine assigns, a run of escape sequences counting 0
measureFrom(s, i) ==
    IF i >= Len(s) THEN 0
    ELSE LET n == ConsecLenAt(s, i + 1)
         IN  IF n > 0 THEN measureFrom(s, i + n)
             ELSE LET code == codePointAt(s, i)
                  IN  segmentWidth(code)
                        + measureFrom(s, IF isSurrogate(code)
                                         THEN i + 2 ELSE i + 1)

measure(s) == measureFrom(s, 0)

\* lineWidth is the accumulated width of the line in progress
LineWidthIsMeasure ==
    pc = "loop" => locals.lineWidth = measure(locals.line)

(***************************************************************************)
(* C1.  breakLine("hello world", 5) with the default options.              *)
(***************************************************************************)
\* C1 as stated: breakLine("hello world", 5) with the default options
\* returns exactly ["hello", " world"].
C1_AsStated ==
    Returned /\ Called(HelloWorld, 5, NoOpts)
        => result = Strings(<< <<104, 101, 108, 108, 111>>,
                               <<32, 119, 111, 114, 108, 100>> >>)

\* C1 as amended: breakLine("hello world", 5) with the default options
\* returns exactly ["hello", " worl", "d"]: the break is forced at the
\* overflowing space, the space is kept at the start of the second line, and
\* the second line is broken again before "d", which would make it 6 wide.
C1_HelloWorld ==
    Returned /\ Called(HelloWorld, 5, NoOpts)
        => result = Strings(<< <<104, 101, 108, 108, 111>>,
                               <<32, 119, 111, 114, 108>>,
                               <<100>> >>)

C1_Witness ==
    Returned /\ Called(HelloWorld, 5, NoOpts) /\ Len(result.a) = 3

(***************************************************************************)
(* C3.  The width of every output line.                                    *)
(***************************************************************************)
\* C3: for any input, maxWidth >= 2 and tolerance >= 0, every output line
\* has an accumulated width of at most maxWidth + tolerance (so at most
\* maxWidth with the default tolerance 0), the line in progress too; and
\* breakLine("abcdef", 3, {tolerance: 1}) has a first line of width 4.
C3_WidthBound ==
    /\ pc = "loop" =>
          locals.lineWidth <= locals.maxWidth + locals.tolerance
    /\ Returned /\ ~Guard(arg, maxWidth) =>
          \A k \in 1..Len(locals.lines) :
              measure(locals.lines[k]) <= locals.maxWidth + locals.tolerance
    /\ Returned /\ Called(Abcdef, 3, Opts({"tolerance"}, 1, FALSE)) =>
          /\ locals.lines[1] = <<97, 98, 99, 100>>
          /\ measure(locals.lines[1]) = 4

\* a line wider than maxWidth was returned, the tolerance absorbing it
C3_Witness ==
    /\ Returned /\ Called(Abcdef, 3, Opts({"tolerance"}, 1, FALSE))
    /\ \E k \in 1..Len(locals.lines) :
           measure(locals.lines[k]) = locals.maxWidth + locals.tolerance

(***************************************************************************)
(* C2.  Wrapping the wrapped lines again.                                  *)
(***************************************************************************)
\* C2 as stated: for every string s (strings with ANSI background sequences
\* and breaking dashes too) and every width w,
\* breakLines(breakLine(s, w), w) = breakLine(s, w), element for element.
C2_Idempotent == pc = "rewrapped" /\ opts = NoOpts => again = result

(***************************************************************************)
(* What one step of the loop scans.                                        *)
(***************************************************************************)
\* the step is an iteration of the loop
IsIteration == pc = "loop" /\ pc' = "loop" /\ locals' # locals

\* the run of escape sequences an iteration starts with (empty if none)
runAt(b) ==
    IF b.ansiIndex = b.index
    THEN SubSeq(b.str, b.index + 1, b.index + b.ansiLen) ELSE <<>>

\* the 0-based index of the character the iteration scans, after the run
scanIndex(b) == b.index + Len(runAt(b))

\* the iteration scans a character (the run does not end the string)
scans(b) == scanIndex(b) < Len(b.str)

scanned(b) == codePointAt(b.str, scanIndex(b))

\* the code units of the character scanned
scannedUnits(b) ==
    SubSeq(b.str, scanIndex(b) + 1,
           scanIndex(b) + (IF isSurrogate(scanned(b)) THEN 2 ELSE 1))

\* the lines a step pushes
pushedLines == SubSeq(locals'.lines, Len(locals.lines) + 1, Len(locals'.lines))

(***************************************************************************)
(* C4.  A breaking space that would overflow.                              *)
(***************************************************************************)
\* the scanned character is a breaking space that would overflow maxWidth
spaceOverflows(b) ==
    /\ scans(b)
    /\ isBreakingSpace(scanned(b))
    /\ b.lineWidth + segmentWidth(scanned(b)) > b.maxWidth

C4_Step ==
    IsIteration /\ spaceOverflows(locals) =>
        /\ Len(pushedLines) = 1
        /\ pushedLines[1] = locals.line \o runAt(locals)
               \o (IF locals'.bgUnclosed # <<>> THEN BG_CLOSE ELSE <<>>)
        /\ locals'.line = cat(locals'.bgUnclosed)
               \o (IF locals.trimBreak THEN <<>> ELSE scannedUnits(locals))
        /\ locals'.lineWidth <= locals.maxWidth

\* no breaking space of a line lies past column maxWidth
spacesWithin(s, width) ==
    \A p \in 1..Len(s) :
        isBreakingSpace(s[p]) => measure(SubSeq(s, 1, p)) <= width

C4_NoSpacePastMax ==
    pc = "loop" \/ (Returned /\ ~Guard(arg, maxWidth)) =>
        /\ spacesWithin(locals.line, locals.maxWidth)
        /\ \A k \in 1..Len(locals.lines) :
               spacesWithin(locals.lines[k], locals.maxWidth)

\* C4: for any tolerance, when the character scanned is a breaking space
\* and lineWidth plus its width exceeds maxWidth, the line is flushed before
\* the space is appended (within the tolerance too): the line pushed is the
\* line as it was, and the space, if kept, starts the next one; so no output
\* line holds a breaking space past column maxWidth.
C4_SpaceBreaks == [][C4_Step]_vars /\ []C4_NoSpacePastMax

\* a space overflowed within the tolerance, the full line was pushed and the
\* space starts the next line
C4_Witness ==
    /\ pc = "loop"
    /\ locals.tolerance >= 1 /\ ~locals.trimBreak
    /\ Len(locals.lines) >= 1
    /\ measure(locals.lines[Len(locals.lines)]) = locals.maxWidth
    /\ locals.line = <<32>>

(***************************************************************************)
(* C5.  trimBreak.                                                         *)
(***************************************************************************)
\* the text of the lines pushed and of the line in progress, the escape
\* sequences left out
text(b) == stripAnsi(cat(b.lines) \o b.line)

\* the scanned character is one that trimBreak drops
dropped(b) == b.trimBreak /\ spaceOverflows(b)

C5_Step ==
    /\ IsIteration =>
          text(locals') = text(locals)
              \o (IF scans(locals) /\ scanned(locals) # 10 /\ ~dropped(locals)
                  THEN scannedUnits(locals) ELSE <<>>)
    /\ pc = "loop" /\ pc' = "done" => text(locals') = text(locals)

C5_Example ==
    Returned /\ Called(HelloWorld, 5, Opts({"trimBreak"}, 0, TRUE))
        => result = Strings(<< <<104, 101, 108, 108, 111>>,
                               <<119, 111, 114, 108, 100>> >>)

\* C5: with trimBreak, a breaking space that would overflow maxWidth is
\* discarded and the line is flushed, so breakLine("hello world", 5,
\* {trimBreak: true}) = ["hello", "world"]; every other character scanned
\* (an LF, which ends the line, apart) is appended to the output, with
\* trimBreak or without.
C5_TrimBreak == [][C5_Step]_vars /\ []C5_Example

\* the space of "hello world" was dropped and the line flushed
C5_Witness ==
    /\ pc = "loop"
    /\ Called(HelloWorld, 5, Opts({"trimBreak"}, 0, TRUE))
    /\ locals.index = 6
    /\ locals.lines = << <<104, 101, 108, 108, 111>> >>
    /\ locals.line = <<>>

(***************************************************************************)
(* C6.  Background sequences are carried over a break.                     *)
(***************************************************************************)
C6_Step ==
    Len(locals'.lines) > Len(locals.lines) /\ locals'.bgUnclosed # <<>> =>
        /\ \A k \in 1..Len(pushedLines) : IsSuffix(BG_CLOSE, pushedLines[k])
        /\ IsPrefix(cat(locals'.bgUnclosed), locals'.line)

\* C6: every time a line is flushed while the list of unclosed background
\* sequences is not empty, the flushed line ends with ESC[49m and the next
\* line begins with the unclosed background-open sequences, concatenated in
\* the order met.
C6_CarryOver == [][C6_Step]_vars

\* a line was flushed inside a coloured span: it ends with ESC[49m and the
\* line in progress starts with the open sequence, text after it
C6_Witness ==
    /\ pc = "loop"
    /\ locals.bgUnclosed # <<>>
    /\ Len(locals.lines) >= 1
    /\ IsSuffix(BG_CLOSE, locals.lines[Len(locals.lines)])
    /\ IsPrefix(cat(locals.bgUnclosed), locals.line)
    /\ Len(locals.line) > Len(cat(locals.bgUnclosed))

(***************************************************************************)
(* C7.  Escape sequences are not split.                                    *)
(***************************************************************************)
C7_Step ==
    IsIteration /\ runAt(locals) # <<>> =>
        /\ IsPrefix(locals.line \o runAt(locals),
                    IF Len(pushedLines) > 0 THEN pushedLines[1]
                    ELSE locals'.line)
        /\ locals'.lineWidth <= locals.lineWidth
               + (IF scans(locals) THEN segmentWidth(scanned(locals)) ELSE 0)

\* every ESC of s starts an escape sequence
wholeSequences(s) == \A p \in 1..Len(s) : s[p] = 27 => AnsiLenAt(s, p) > 0

C7_NoPartial ==
    Returned /\ ~Guard(arg, maxWidth) /\ wholeSequences(locals.str) =>
        \A k \in 1..Len(locals.lines) : wholeSequences(locals.lines[k])

\* C7: a run of escape sequences is appended whole to one line, adding
\* nothing to the width, and no line is flushed inside it; so an input
\* whose escape sequences are whole gives lines whose escape sequences are
\* whole.
C7_Atomic == [][C7_Step]_vars /\ []C7_NoPartial

\* a run met in the middle of a line that was then flushed
C7_Witness ==
    /\ pc = "loop"
    /\ \E k \in 1..Len(locals.lines) :
           /\ Len(locals.lines[k]) >= 2
           /\ locals.lines[k][1] = 97
           /\ locals.lines[k][2] = 27

(***************************************************************************)
(* The calls with any argument: every function, strings with lone ESC      *)
(* units and fragments of sequences, values that are no strings, widths    *)
(* that are no integers >= 2.                                              *)
(***************************************************************************)
\* a, the fullwidth U+4E2D, the surrogate pair of U+1F600, the combining
\* U+0301, a lone ESC, the fragment [41m and ESC[41m
AnyAlphabet ==
    { <<97>>, <<20013>>, <<55357, 56832>>, <<769>>,
      <<27>>, <<91, 52, 49, 109>>, <<27, 91, 52, 49, 109>> }

AnyScalars ==
    {Str(s) : s \in StringsOf(AnyAlphabet, MaxTokens)}
        \cup {Undefined, Null, Num(0), Num(7)}

AnyElements == {Str(<<>>), Str(<<97>>), Str(<<97, 97, 97>>), Undefined, Num(7)}

AnyLines ==
    {Arr(<<>>), Undefined, Null, Str(<<97>>)}
        \cup {Arr(<<e>>) : e \in AnyElements}
        \cup {Arr(<<e, f>>) : e \in AnyElements, f \in AnyElements}

AnyWidths == {Whole(w) : w \in -1..MaxWidth} \cup {Half(2), Infinity, NaN}

AnyOpts ==
    {NoOpts, NullOpts, Opts({"tolerance", "trimBreak"}, MaxTolerance, TRUE)}

InitAny ==
    \/ InitWith({"breakLine"}, AnyScalars, AnyWidths, AnyOpts)
    \/ InitWith({"forceLineReturn"}, AnyScalars, AnyWidths, {NoOpts})
    \/ InitWith({"breakLines"}, AnyLines, AnyWidths, {NoOpts})
    \/ InitWith({"stringWidth"}, AnyScalars, {Whole(2)}, {NoOpts})

NextAny ==
    \/ Enter
    \/ Iterate
    \/ Finish
    \/ CallBreakLines
    \/ CallForceLineReturn
    \/ CallStringWidth
    \/ Restrip

SpecAny == InitAny /\ [][NextAny]_vars

\* maxWidth is an integer >= 2
ValidWidth == maxWidth.t = "int" /\ maxWidth.n >= 2

(***************************************************************************)
(* C8.  The guard of breakLine.                                            *)
(***************************************************************************)
\* C8: for every str and maxWidth, if str is falsy or maxWidth is not an
\* integer >= 2 (Infinity, NaN, a fraction, 0, 1, a negative), breakLine
\* returns the one-element list [str], str unchanged, whatever opts is.
C8_GuardIdentity ==
    fn = "breakLine" /\ pc # "call" /\ (Falsy(arg) \/ ~ValidWidth)
        => pc = "done" /\ result = Arr(<<arg>>)

\* a string came back as it was for a width of 1, options given
C8_Witness ==
    /\ fn = "breakLine" /\ pc = "done"
    /\ arg = Str(<<97, 20013, 97>>)
    /\ maxWidth = Whole(1)
    /\ opts.t = "object"
    /\ result = Arr(<<arg>>)

(***************************************************************************)
(* C9.  Exceptions.                                                        *)
(***************************************************************************)
\* C9 as stated: none of breakLine, breakLines, forceLineReturn and
\* stringWidth raises, for any input.
C9_NeverRaises == pc # "threw"

\* the value is a string or is falsy
stringOrFalsy(v) == v.t = "string" \/ Falsy(v)

\* C9 as amended: stringWidth raises for no input and is 0 for what is no
\* string; breakLine does not raise when str is a string or falsy or
\* maxWidth is no integer >= 2; breakLines does not raise on an array whose
\* elements are strings or falsy (or at such a maxWidth); forceLineReturn
\* does not raise on a string.  The other calls raise a TypeError: breakLine
\* of a truthy str that is no string at an integer maxWidth >= 2,
\* breakLines of what is no array or of an array with such an element,
\* forceLineReturn of what is no string.
C9_Total ==
    pc # "call" =>
        /\ fn = "stringWidth" =>
              /\ pc # "threw"
              /\ arg.t # "string" => result = Num(0)
        /\ fn = "breakLine" =>
              (pc = "threw" <=> ~stringOrFalsy(arg) /\ ValidWidth)
        /\ fn = "breakLines" =>
              (pc = "threw" <=>
                  \/ arg.t # "array"
                  \/ /\ ValidWidth
                     /\ \E k \in 1..Len(arg.a) : ~stringOrFalsy(arg.a[k]))
        /\ fn = "forceLineReturn" => (pc = "threw" <=> arg.t # "string")

\* undefined given for str at a valid maxWidth came back as [undefined]
C9_Witness ==
    /\ fn = "breakLine" /\ pc = "done"
    /\ arg = Undefined
    /\ ValidWidth
    /\ result = Arr(<<Undefined>>)

(***************************************************************************)
(* C10.  stringWidth and escape sequences.                                 *)
(***************************************************************************)
\* C10 as stated: for every string s, stringWidth(s) =
\* stringWidth(stripAnsi(s)); and stringWidth of the empty string or of
\* what is no string is 0.
C10_AsStated ==
    /\ pc = "compared" => again = result
    /\ fn = "stringWidth" /\ pc = "done" /\ (arg.t # "string" \/ arg.s = <<>>)
          => result = Num(0)

\* stripAnsi leaves no escape sequence in s
stripsClean(s) == stripAnsi(stripAnsi(s)) = stripAnsi(s)

\* C10 as amended: for every string s that stripAnsi leaves without an
\* escape sequence (stripAnsi(stripAnsi(s)) = stripAnsi(s)), stringWidth(s)
\* = stringWidth(stripAnsi(s)); and stringWidth of the empty string or of
\* what is no string is 0.
C10_Invisible ==
    /\ pc = "compared" /\ stripsClean(arg.s) => again = result
    /\ fn = "stringWidth" /\ pc = "done" /\ (arg.t # "string" \/ arg.s = <<>>)
          => result = Num(0)

\* a string with an escape sequence and a width that is not 0 was measured
\* both ways
C10_Witness ==
    /\ pc = "compared"
    /\ stripAnsi(arg.s) # arg.s
    /\ stripsClean(arg.s)
    /\ result.s[1] > 0
    /\ again = result

(***************************************************************************)
(* The code point classifiers as functions of any value (codes.ts): every  *)
(* one tests Number.isInteger(cp) before it compares.  A value given for   *)
(* cp is [t, n]: the integer n, n + 1/2, Infinity, -Infinity, NaN,         *)
(* undefined or the string of the digits of n.                             *)
(***************************************************************************)
NegInfinity == [t |-> "-Infinity", n |-> 0]

UndefinedCp == [t |-> "undefined", n |-> 0]

DigitsCp(n) == [t |-> "string", n |-> n]

Classifiers ==
    {"isBreakingSpace", "isNonBreakingSpace", "isSpace", "isCombining",
     "isControl", "isSurrogate", "isFullwidth", "isBreakingDash",
     "isWordBreaking"}

RECURSIVE classifyTruncated(_, _)
\* the classifiers with Math.trunc(cp) of a finite number cp in place of the
\* test Number.isInteger(cp)
classifyTruncated(name, cp) ==
    LET finite == cp.t \in {"int", "fraction"}
    IN  CASE name = "isBreakingSpace" -> finite /\ isBreakingSpace(cp.n)
          [] name = "isNonBreakingSpace" -> finite /\ isNonBreakingSpace(cp.n)
          [] name = "isCombining" -> finite /\ isCombining(cp.n)
          [] name = "isControl" -> finite /\ isControl(cp.n)
          [] name = "isSurrogate" -> finite /\ isSurrogate(cp.n)
          [] name = "isFullwidth" -> finite /\ isFullwidth(cp.n)
          [] name = "isBreakingDash" -> finite /\ isBreakingDash(cp.n)
          [] name = "isSpace" ->
                \/ classifyTruncated("isNonBreakingSpace", cp)
                \/ classifyTruncated("isBreakingSpace", cp)
          [] name = "isWordBreaking" ->
                \/ classifyTruncated("isBreakingSpace", cp)
                \/ classifyTruncated("isBreakingDash", cp)

RECURSIVE classify(_, _)
\* the classifier called name, of the value cp: Number.isInteger(cp) && ...,
\* and isSpace and isWordBreaking by the two classifiers they call
classify(name, cp) ==
    CASE name = "isBreakingSpace" -> IsInteger(cp) /\ isBreakingSpace(cp.n)
      [] name = "isNonBreakingSpace" ->
            IsInteger(cp) /\ isNonBreakingSpace(cp.n)
      [] name = "isCombining" -> IsInteger(cp) /\ isCombining(cp.n)
      [] name = "isControl" -> IsInteger(cp) /\ isControl(cp.n)
      [] name = "isSurrogate" -> IsInteger(cp) /\ isSurrogate(cp.n)
      [] name = "isFullwidth" -> IsInteger(cp) /\ isFullwidth(cp.n)
      [] name = "isBreakingDash" -> IsInteger(cp) /\ isBreakingDash(cp.n)
      [] name = "isSpace" ->
            classify("isNonBreakingSpace", cp) \/ classify("isBreakingSpace", cp)
      [] name = "isWordBreaking" ->
            classify("isBreakingSpace", cp) \/ classify("isBreakingDash", cp)

(***************************************************************************)
(* closest and closestIndex (arrays.ts 104-164).  The array holds          *)
(* integers; target, min and a difference are numbers [t, n].              *)
(***************************************************************************)
\* a < b of two numbers
Less(a, b) ==
    CASE a.t = "NaN" \/ b.t = "NaN" -> FALSE
      [] a.t = "-Infinity" -> b.t # "-Infinity"
      [] a.t = "Infinity" -> FALSE
      [] OTHER -> b.t = "Infinity" \/ (b.t = "int" /\ a.n < b.n)

\* Math.abs(element - target), element an integer
AbsDiff(element, target) ==
    CASE target.t = "int" ->
            Whole(IF element >= target.n THEN element - target.n
                  ELSE target.n - element)
      [] target.t = "NaN" -> NaN
      [] OTHER -> Infinity

\* the neighbour at 0-based index i is taken when it is nearer than min
\* (lines 138-142 and 145-149): c is [min, index]
nearer(c, arr, i, target) ==
    IF Less(AbsDiff(arr[i + 1], target), c.min)
    THEN [min |-> AbsDiff(arr[i + 1], target), index |-> Num(i)] ELSE c

RECURSIVE search(_, _, _, _, _)
\* the loop of lines 134-160: c is [min, index]
search(target, arr, c, low, high) ==
    IF low > high THEN c.index
    ELSE LET mid == (low + high) \div 2
             c1 == IF mid + 1 < Len(arr) THEN nearer(c, arr, mid + 1, target)
                   ELSE c
             c2 == IF mid > 0 THEN nearer(c1, arr, mid - 1, target) ELSE c1
         IN  IF Less(Whole(arr[mid + 1]), target)
             THEN search(target, arr, c2, mid + 1, high)
             ELSE IF Less(target, Whole(arr[mid + 1]))
                  THEN search(target, arr, c2, low, mid - 1)
                  ELSE Num(mid)

\* closestIndex(target, arr) (arrays.ts 118-164)
closestIndex(target, arr) ==
    IF Len(arr) = 0 THEN Undefined
    ELSE IF Len(arr) = 1 THEN Num(0)
    ELSE search(target, arr, [min |-> Infinity, index |-> Undefined],
                0, Len(arr) - 1)

\* closest(target, arr) (arrays.ts 104-116)
closest(target, arr) ==
    LET index == closestIndex(target, arr)
    IN  IF index # Undefined THEN Num(arr[index.s[1] + 1]) ELSE Undefined

(***************************************************************************)
(* endsWith (strings.ts 197-199).                                          *)
(***************************************************************************)
\* str.lastIndexOf(srch): the last 0-based index srch occurs at, -1 if none
lastIndexOf(str, srch) ==
    LET at == {i \in 0..Len(str) : OccursAt(str, srch, i + 1)}
    IN  IF at = {} THEN -1 ELSE CHOOSE i \in at : \A j \in at : j <= i

endsWith(str, srch) == Len(str) - lastIndexOf(str, srch) = Len(srch)

(***************************************************************************)
(* The calls of the functions without state: stringWidth, the classifiers, *)
(* closestIndex, closest and endsWith.                                     *)
(***************************************************************************)
\* the longest array given to closestIndex
MaxLen == 4
\* the largest element of such an array
MaxElement == 4

\* a, the control BEL, the combining U+0301, the fullwidth U+4E2D, the
\* surrogate pairs of U+1F600 and of the fullwidth U+20000, a high and a low
\* surrogate alone
WidthAlphabet ==
    { <<97>>, <<7>>, <<769>>, <<20013>>, <<55357, 56832>>, <<55360, 56320>>,
      <<55357>>, <<56832>> }

\* the values given for cp: integers at and about the ranges of the
\* classifiers, and what is no integer
CodeValues ==
    {Whole(n) : n \in {-1, 0, 9, 31, 32, 45, 97, 127, 160, 768, 879, 5760,
                       8192, 8208, 8239, 12288, 12351, 20013, 65293, 65535,
                       65536, 69293, 128512, 131072}}
        \cup {Half(n) : n \in {0, 32, 45, 160, 768, 20013, 65536}}
        \cup {Infinity, NegInfinity, NaN, UndefinedCp, DigitsCp(32),
              DigitsCp(45)}

\* the arrays of at most n integers of 0..MaxElement, sorted ascending
SortedArrays(n) ==
    {arr \in UNION {[1..k -> 0..MaxElement] : k \in 0..n} :
        \A i \in 1..(Len(arr) - 1) : arr[i] <= arr[i + 1]}

Targets ==
    {Whole(n) : n \in -1..(MaxElement + 1)} \cup {Infinity, NegInfinity, NaN}

\* the strings given to endsWith
EndStrings == StringsOf({<<97>>, <<98>>}, MaxTokens)

\* the classifiers are called with the value cp: the answers, by name
CallClassifiers ==
    /\ pc = "call"
    /\ fn = "codes"
    /\ result' = [name \in Classifiers |-> classify(name, arg)]
    /\ pc' = "done"
    /\ UNCHANGED <<fn, arg, maxWidth, opts, locals, again>>

\* closestIndex(target, arr) is called
CallClosestIndex ==
    /\ pc = "call"
    /\ fn = "closestIndex"
    /\ result' = closestIndex(arg.target, arg.arr)
    /\ pc' = "done"
    /\ UNCHANGED <<fn, arg, maxWidth, opts, locals, again>>

\* closest(target, arr) is called
CallClosest ==
    /\ pc = "call"
    /\ fn = "closest"
    /\ result' = closest(arg.target, arg.arr)
    /\ pc' = "done"
    /\ UNCHANGED <<fn, arg, maxWidth, opts, locals, again>>

\* endsWith(str, srch) is called
CallEndsWith ==
    /\ pc = "call"
    /\ fn = "endsWith"
    /\ result' = endsWith(arg.str, arg.srch)
    /\ pc' = "done"
    /\ UNCHANGED <<fn, arg, maxWidth, opts, locals, again>>

InitPure ==
    \/ InitWith({"stringWidth"},
                {Str(s) : s \in StringsOf(WidthAlphabet, MaxTokens)},
                {Whole(2)}, {NoOpts})
    \/ InitWith({"codes"}, CodeValues, {Whole(2)}, {NoOpts})
    \/ InitWith({"closestIndex", "closest"},
                {[target |-> target, arr |-> arr] :
                    target \in Targets, arr \in SortedArrays(MaxLen)},
                {Whole(2)}, {NoOpts})
    \/ InitWith({"endsWith"},
                {[str |-> str, srch |-> srch] :
                    str \in EndStrings, srch \in EndStrings},
                {Whole(2)}, {NoOpts})

NextPure ==
    \/ CallStringWidth
    \/ CallClassifiers
    \/ CallClosestIndex
    \/ CallClosest
    \/ CallEndsWith

SpecPure == InitPure /\ [][NextPure]_vars

\* the call of fn has returned
Done(name) == fn = name /\ pc = "done"

(***************************************************************************)
(* C11.  stringWidth of a string without escape sequences.                 *)
(***************************************************************************)
RECURSIVE codePoints(_)
\* the code points of s, left to right: a high surrogate and the low one
\* after it are one code point, any other unit is one by itself
codePoints(s) ==
    IF s = <<>> THEN <<>>
    ELSE LET pair == /\ Len(s) >= 2
                     /\ 55296 <= s[1] /\ s[1] <= 56319
                     /\ 56320 <= s[2] /\ s[2] <= 57343
         IN  IF pair
             THEN <<65536 + (s[1] - 55296) * 1024 + (s[2] - 56320)>>
                      \o codePoints(SubSeq(s, 3, Len(s)))
             ELSE <<s[1]>> \o codePoints(Tail(s))

\* what the code point cp contributes to the width
contribution(cp) ==
    IF isControl(cp) \/ isCombining(cp) THEN 0
    ELSE (IF cp > 65535 THEN 1 ELSE 0) + (IF isFullwidth(cp) THEN 2 ELSE 1)

RECURSIVE total(_)
total(cps) ==
    IF cps = <<>> THEN 0 ELSE contribution(Head(cps)) + total(Tail(cps))

C12_Classifiers ==
    fn = "codes" /\ pc # "call" =>
        /\ pc = "done"
        /\ DOMAIN result = Classifiers
        /\ arg.t # "int" => \A name \in Classifiers : result[name] = FALSE
        /\ arg.t = "int" =>
              /\ result["isSpace"] =
                    (result["isBreakingSpace"] \/ result["isNonBreakingSpace"])
              /\ result["isWordBreaking"] =
                    (result["isBreakingSpace"] \/ result["isBreakingDash"])

\* the classifiers answered for 32 + 1/2 and for the integer 12288, a
\* breaking space
C12_Witness ==
    /\ Done("codes")
    /\ \/ arg = Half(32)
       \/ arg = Whole(12288) /\ result["isSpace"] /\ result["isWordBreaking"]

(***************************************************************************)
(* C13.  closestIndex and closest.                                         *)
(***************************************************************************)
\* |arr[i] - target| <= |arr[j] - target|, i and j 0-based
nearest(arr, target, i) ==
    \A j \in 0..(Len(arr) - 1) :
        ~Less(AbsDiff(arr[j + 1], target), AbsDiff(arr[i + 1], target))

\* C13 as stated: for every array sorted ascending that is not empty and
\* every numeric target (Infinity and -Infinity too), closestIndex returns
\* an index i with |arr[i] - target| minimal over the indices of arr and
\* closest returns arr[i] for such an i; for the empty array both return
\* undefined.
C13_Closest ==
    /\ Done("closestIndex") /\ arg.target.t # "NaN" =>
          IF arg.arr = <<>> THEN result = Undefined
          ELSE /\ result.t = "number"
               /\ result.s[1] \in 0..(Len(arg.arr) - 1)
               /\ nearest(arg.arr, arg.target, result.s[1])
    /\ Done("closest") /\ arg.target.t # "NaN" =>
          IF arg.arr = <<>> THEN result = Undefined
          ELSE /\ result.t = "number"
               /\ \E i \in 0..(Len(arg.arr) - 1) :
                      /\ result.s[1] = arg.arr[i + 1]
                      /\ nearest(arg.arr, arg.target, i)

(***************************************************************************)
(* C14.  endsWith.                                                         *)
(***************************************************************************)
\* C14 as stated: endsWith(str, srch) is true if and only if srch is a
\* suffix of str, for all strings (srch longer than str and srch that does
\* not occur in str too); every string ends with the empty string.
C14_Suffix ==
    Done("endsWith") =>
        /\ result = IsSuffix(arg.srch, arg.str)
        /\ arg.srch = <<>> => result = TRUE

(***************************************************************************)
(* C15.  The list of unclosed background sequences after ESC[49m.          *)
(***************************************************************************)
\* the background sequences of the run an iteration starts with
runBgs(b) == AnsiBgGlobal(runAt(b), 1)

\* the sequences of bgs after its last ESC[49m
afterLastClose(bgs) ==
    LET closes == {k \in 1..Len(bgs) : bgs[k] = BG_CLOSE}
        last == CHOOSE k \in closes : \A j \in closes : j <= k
    IN  SubSeq(bgs, last + 1, Len(bgs))

C15_Step ==
    /\ IsIteration
    /\ scans(locals)
    /\ \E k \in 1..Len(runBgs(locals)) : runBgs(locals)[k] = BG_CLOSE
    => locals'.bgUnclosed = afterLastClose(runBgs(locals))

\* C15 as stated: after any run of escape sequences that holds ESC[49m (and
\* does not end the string), the list of unclosed background sequences is
\* exactly the background-open sequences that come after the last ESC[49m of
\* that run: none opened before it is left in the list.
C15_Cleared == [][C15_Step]_vars

(***************************************************************************)
(* C16.  An input that ends with a run of escape sequences.                *)
(***************************************************************************)
\* the run of escape sequences s ends with: its longest suffix that is a
\* run (empty if s does not end with an escape sequence)
trailingRun(s) ==
    LET starts == {p \in 1..Len(s) : ConsecLenAt(s, p) = Len(s) - p + 1}
    IN  IF starts = {} THEN <<>>
        ELSE SubSeq(s, CHOOSE p \in starts : \A q \in starts : p <= q, Len(s))

\* a background colour is open after the text s: its last background
\* sequence is not ESC[49m
openAfter(s) ==
    LET bgs == AnsiBgGlobal(s, 1)
    IN  bgs # <<>> /\ bgs[Len(bgs)] # BG_CLOSE

C16_Step ==
    /\ IsIteration /\ runAt(locals) # <<>> /\ ~scans(locals) =>
          /\ runAt(locals) = trailingRun(locals.str)
          /\ locals'.index = Len(locals.str)
          /\ locals'.lines = locals.lines
          /\ locals'.line = locals.line \o runAt(locals)
    /\ pc = "loop" /\ pc' = "done" /\ trailingRun(locals.str) # <<>> =>
          /\ locals'.lines = Append(locals.lines, locals.line)
          /\ IsSuffix(trailingRun(locals.str), locals.line)
          /\ result' = Strings(locals'.lines)
    /\ IsIteration /\ openAfter(SubSeq(locals.str, 1, scanIndex(locals))) =>
          \A k \in 1..Len(pushedLines) : IsSuffix(BG_CLOSE, pushedLines[k])

\* C16: when the input ends with a run of escape sequences, the scan stops
\* at that run and the last line returned ends with exactly that run, no
\* ESC[49m being appended to it even when a background colour is still
\* open; every line flushed before, while a background colour is open, ends
\* with ESC[49m.
C16_EndsInRun == [][C16_Step]_vars

\* an input that ends with a run and an open background was wrapped: an
\* earlier line ends with ESC[49m, the last line ends with the run and not
\* with ESC[49m
C16_Witness ==
    /\ Returned /\ ~Guard(arg, maxWidth)
    /\ trailingRun(locals.str) # <<>>
    /\ openAfter(locals.str)
    /\ Len(locals.lines) >= 2
    /\ IsSuffix(BG_CLOSE, locals.lines[1])
    /\ IsSuffix(trailingRun(locals.str), locals.lines[Len(locals.lines)])
    /\ ~IsSuffix(BG_CLOSE, locals.lines[Len(locals.lines)])

(***************************************************************************)
(* C17.  The break after a breaking dash.                                  *)
(***************************************************************************)
\* the 0-based index of the last code unit of the character scanned
lastUnit(b) == scanIndex(b) + Len(scannedUnits(b)) - 1

\* the last line a step pushes
lastPushed == pushedLines[Len(pushedLines)]

C17_Step ==
    IsIteration /\ scans(locals) /\ isBreakingDash(scanned(locals)) =>
        IF locals'.lineWidth = 0
        THEN /\ pushedLines # <<>>
             /\ IsSuffix(scannedUnits(locals)
                            \o (IF locals'.bgUnclosed # <<>> THEN BG_CLOSE
                                ELSE <<>>),
                         lastPushed)
             /\ measure(lastPushed) >= locals.maxWidth
             /\ lastUnit(locals) < Len(locals.str) - 1
             /\ locals'.line = cat(locals'.bgUnclosed)
        ELSE /\ IsSuffix(scannedUnits(locals), locals'.line)
             /\ \/ locals'.lineWidth < locals.maxWidth
                \/ lastUnit(locals) = Len(locals.str) - 1

\* C17: after a breaking dash has been appended, the line is flushed at
\* once if and only if the running width is >= maxWidth and the dash is not
\* the last character (code unit) of the normalized string; the dash is the
\* end of the flushed line (before the ESC[49m of an open background), and
\* a dash that ends the string causes no flush.
C17_DashBreak == [][C17_Step]_vars

\* a line that ends with the dash just scanned was flushed at maxWidth, and
\* the string goes on
C17_Witness ==
    /\ pc = "loop"
    /\ locals.index >= 1 /\ locals.index < Len(locals.str)
    /\ isBreakingDash(locals.str[locals.index])
    /\ locals.lineWidth = 0 /\ locals.line = <<>>
    /\ Len(locals.lines) >= 1
    /\ IsSuffix(<<locals.str[locals.index]>>, locals.lines[Len(locals.lines)])
    /\ measure(locals.lines[Len(locals.lines)]) >= locals.maxWidth

(***************************************************************************)
(* C18.  Newline markers.                                                  *)
(***************************************************************************)
RECURSIVE markers(_)
\* the newline markers of s: CR LF is one marker, a CR or an LF alone is one
markers(s) ==
    IF s = <<>> THEN 0
    ELSE IF Len(s) >= 2 /\ s[1] = 13 /\ s[2] = 10
         THEN 1 + markers(SubSeq(s, 3, Len(s)))
         ELSE (IF s[1] \in {10, 13} THEN 1 ELSE 0) + markers(Tail(s))

\* s holds no newline character
oneLine(s) == \A p \in 1..Len(s) : s[p] \notin {10, 13}

\* s without its newline characters
unbroken(s) == SelectSeq(s, LAMBDA u : u \notin {10, 13})

\* C18: with a valid maxWidth, each newline marker flushes the line in
\* progress and resets the width to 0, and the rest is flushed at the end of
\* the input even if empty: no line holds a newline character, the result
\* is never empty, an input with k newline markers gives at least k + 1
\* lines, and the text of the lines is the text of the input in its order.
C18_Newlines ==
    /\ pc = "loop" =>
          /\ Len(locals.lines) >= markers(SubSeq(locals.str, 1, locals.index))
          /\ locals.index >= 1 /\ locals.index <= Len(locals.str)
                /\ locals.str[locals.index] = 10
                => locals.lineWidth = 0 /\ locals.line = cat(locals.bgUnclosed)
          /\ oneLine(locals.line)
          /\ \A k \in 1..Len(locals.lines) : oneLine(locals.lines[k])
    /\ Returned =>
          /\ Len(result.a) >= 1
          /\ Len(result.a) >= markers(arg.s) + 1
          /\ \A k \in 1..Len(result.a) : oneLine(result.a[k].s)
          /\ ~Guard(arg, maxWidth) /\ ~locals.trimBreak =>
                stripAnsi(cat(locals.lines)) = stripAnsi(unbroken(arg.s))

\* "a" CR LF "b" CR "c" came back as the three lines "a", "b" and "c"
C18_Witness ==
    /\ Returned /\ Called(Crlf, 3, NoOpts)
    /\ result = Strings(<< <<97>>, <<98>>, <<99>> >>)

(***************************************************************************)
(* C19.  The content of the lines.                                         *)
(***************************************************************************)
\* the options ask for trimBreak
asksTrim(o) == o.t = "object" /\ "trimBreak" \in o.keys /\ o.trimBreak

\* no surrogate pair lies across the end of one line and the start of the
\* next
pairsWhole(elems) ==
    \A k \in 1..(Len(elems) - 1) :
        ~ /\ elems[k].s # <<>> /\ elems[k + 1].s # <<>>
          /\ 55296 <= elems[k].s[Len(elems[k].s)]
          /\ elems[k].s[Len(elems[k].s)] <= 56319
          /\ 56320 <= elems[k + 1].s[1] /\ elems[k + 1].s[1] <= 57343

\* the strings of elems, one after the other
content(elems) == cat([k \in 1..Len(elems) |-> elems[k].s])

\* C19: for every string s without escape sequences, every valid maxWidth,
\* any tolerance and trimBreak = false, the lines of breakLine one after the
\* other are s without its newline markers (nothing lost, doubled or out of
\* order), and no surrogate pair is split across two lines.
C19_Content ==
    Returned /\ stripAnsi(arg.s) = arg.s /\ ~asksTrim(opts) =>
        /\ content(result.a) = unbroken(arg.s)
        /\ pairsWhole(result.a)

\* a string with a surrogate pair and a newline was wrapped in three lines
\* or more, a tolerance given
C19_Witness ==
    /\ Returned /\ stripAnsi(arg.s) = arg.s /\ ~asksTrim(opts)
    /\ opts.t = "object" /\ opts.tolerance = 1
    /\ arg.s = <<20013, 55357, 56832, 10>>
    /\ Len(result.a) >= 3
    /\ content(result.a) = <<20013, 55357, 56832>>

(***************************************************************************)
(* C20.  The widths of breakLine and of stringWidth.                       *)
(***************************************************************************)
\* C20 as stated: the segment width breakLine assigns to a code point is
\* stringWidth of the string of that one code point; so for an input
\* without escape sequences every line l returned has stringWidth(l) <=
\* maxWidth + tolerance.
C20_WidthsAgree ==
    /\ pc = "loop" /\ scans(locals) =>
          segmentWidth(scanned(locals))
              = stringWidth(Str(scannedUnits(locals)))
    /\ Returned /\ ~Guard(arg, maxWidth) /\ stripAnsi(arg.s) = arg.s =>
          \A k \in 1..Len(locals.lines) :
              stringWidth(Str(locals.lines[k]))
                  <= locals.maxWidth + locals.tolerance

(***************************************************************************)
(* C21.  forceLineReturn and breakLine of the whole text.  The strings     *)
(* hold no escape sequence and no line break but LF.                       *)
(***************************************************************************)
\* a, space, hyphen-minus, LF and the fullwidth U+4E2D
LineAlphabet == { <<97>>, <<32>>, <<45>>, <<10>>, <<20013>> }

\* the whole content is wrapped at once and its lines joined:
\* breakLine(content, width).join('\n')
JoinWhole ==
    /\ pc = "done"
    /\ fn = "forceLineReturn"
    /\ again' = Str(join(breakLine(arg, maxWidth, NoOpts).a))
    /\ pc' = "joined"
    /\ UNCHANGED <<fn, arg, maxWidth, opts, locals, result>>

InitLines ==
    InitWith({"forceLineReturn"},
             {Str(s) : s \in StringsOf(LineAlphabet, MaxTokens)},
             {Whole(w) : w \in 2..MaxWidth}, {NoOpts})

NextLines == CallForceLineReturn \/ JoinWhole

SpecLines == InitLines /\ [][NextLines]_vars

\* C21 as stated: for every string s without escape sequences whose only
\* line breaks are LF and every valid width w, forceLineReturn(s, w) is
\* breakLine(s, w) joined with LF: wrapping the whole text at once gives
\* the lines of wrapping each of its lines by itself, no empty line added.
C21_LineWise == pc = "joined" => again = result

=============================================================================
